---- MODULE Spec2Model ----
(***************************************************************************)
(* Session / token lifecycle of monquad: login, refresh-token rotation,    *)
(* breach detection, logout and logout-all over a Redis key space with     *)
(* TTLs and an in-memory user directory.                                   *)
(*                                                                         *)
(* Granularity: a handler is a sequence of atomic steps, one step per      *)
(* awaited Redis command together with the synchronous code that follows   *)
(* it up to the next Redis command (JavaScript runs that code without      *)
(* interleaving).  Several requests can be in flight at once.              *)
(*                                                                         *)
(* Strings are sequences of symbols: a UUID, a random hex token and the    *)
(* literal "refresh_token:" are one symbol each; ":" "*" "?" are symbols   *)
(* of their own, so that key construction and KEYS pattern matching are    *)
(* computed on the string and not assumed.                                 *)
(*                                                                         *)
(* A Redis command either runs or faults (connection refused / timeout,    *)
(* getRedisClient or the command rejects) without having run.              *)
(***************************************************************************)
EXTENDS Integers, Sequences, FiniteSets, TLC

\* ------------------------------------------------------------------ bounds
NumProcs == 2
MaxRequests == 3
MaxTokens == 3
MaxUsers == 2
MaxFaults == 1
MaxRestarts == 1
MaxEpochs == 1
MaxAccessTokens == 2
MaxAccessEpochs == 2
NumCalls == 2
NumDigits == 8
NumGameSlots == 2
MaxGuesses == 9
MaxLimiterCalls == 61
MaxLimiterMinutes == 2
NumUpdateSlots == 2
MaxUpdates == 3
MaxDedupTicks == 2

\* ------------------------------------------------------- program constants
REFRESH_TOKEN_EXPIRY == 7 * 24 * 60 * 60

Procs == 1..NumProcs
MaxTime == REFRESH_TOKEN_EXPIRY * MaxEpochs
\* The clock is observed one second before a TTL has run out and when it has.
TickSizes == {REFRESH_TOKEN_EXPIRY - 1, REFRESH_TOKEN_EXPIRY}

\* ----------------------------------------------------------------- strings
Empty == <<>>
UserSym(n) == <<"u" \o ToString(n)>>
TokenSym(n) == <<"t" \o ToString(n)>>
ForgedToken == <<"t0">>
StarUserId == <<"*">>

\* `refresh_token:${userId}:${refreshToken}`
RefreshKey(userId, refreshToken) ==
    <<"refresh_token:">> \o userId \o <<":">> \o refreshToken

\* Mutant of RefreshPattern: the trailing wildcard is forgotten.
RefreshPattern_NoWildcard(userId) == <<"refresh_token:">> \o userId \o <<":">>

\* `refresh_token:${userId}:*`
RefreshPattern(userId) == <<"refresh_token:">> \o userId \o <<":", "*">>

\* Redis KEYS glob matching: "*" matches any run of symbols, "?" one symbol.
RECURSIVE GlobMatch(_, _)
GlobMatch(pat, str) ==
    IF pat = <<>> THEN str = <<>>
    ELSE IF Head(pat) = "*"
         THEN GlobMatch(Tail(pat), str)
              \/ (str # <<>> /\ GlobMatch(pat, Tail(str)))
    ELSE IF str = <<>> THEN FALSE
    ELSE (Head(pat) = "?" \/ Head(pat) = Head(str))
         /\ GlobMatch(Tail(pat), Tail(str))

\* -------------------------------------------------------- user directory
\* A raw credential string is a base spelling plus its letter case and
\* whether it is padded with white space.
Raw(b, up) == [base |-> b, upper |-> up, padded |-> FALSE]
Padded(r) == [r EXCEPT !.padded = TRUE]
\* <<username, walletAddress>> bodies a login request can carry.
LoginInputs ==
    {<<Raw("alice", FALSE), Raw("0xaa", FALSE)>>,
     <<Padded(Raw("alice", TRUE)), Padded(Raw("0xaa", TRUE))>>,
     <<Raw("bob", FALSE), Raw("0xbb", FALSE)>>,
     <<Raw("bob", FALSE), Raw("0xaa", FALSE)>>,
     <<Raw("", FALSE), Raw("0xaa", FALSE)>>,
     <<Raw("alice", FALSE), Raw("nothex", FALSE)>>}

\* Mutant of normalizeWalletAddress: toLowerCase() is forgotten.
normalizeWalletAddress_TrimOnly(address) == [address EXCEPT !.padded = FALSE]

\* address.toLowerCase().trim()
normalizeWalletAddress(address) ==
    [address EXCEPT !.upper = FALSE, !.padded = FALSE]
normalizeUsername(username) ==
    [username EXCEPT !.upper = FALSE, !.padded = FALSE]
isValidWalletAddress(address) ==
    normalizeWalletAddress(address).base \in {"0xaa", "0xbb"}
isValidUsername(username) ==
    normalizeUsername(username).base \in {"alice", "bob"}

NullUser == [id |-> Empty, username |-> Raw("", FALSE),
             walletAddress |-> Raw("", FALSE)]

findUserByWalletAddress(us, walletAddress) ==
    LET hit == {u \in us : u.walletAddress = normalizeWalletAddress(walletAddress)}
    IN IF hit = {} THEN NullUser ELSE CHOOSE u \in hit : TRUE

findUserByUsername(us, username) ==
    LET hit == {u \in us : u.username = normalizeUsername(username)}
    IN IF hit = {} THEN NullUser ELSE CHOOSE u \in hit : TRUE

\* Mutant of findUserById: the lookup never finds anyone.
findUserById_Missing(us, userId) == NullUser

findUserById(us, userId) ==
    LET hit == {u \in us : u.id = userId}
    IN IF hit = {} THEN NullUser ELSE CHOOSE u \in hit : TRUE

\* Result of a directory call: the user (NullUser when it threw or returned
\* null), whether it threw, and the directory afterwards.
DirResult(u, t, us) == [user |-> u, throws |-> t, users |-> us]

createUser(us, username, walletAddress, newId) ==
    IF ~isValidWalletAddress(walletAddress) THEN DirResult(NullUser, TRUE, us)
    ELSE IF ~isValidUsername(username) THEN DirResult(NullUser, TRUE, us)
    ELSE IF findUserByWalletAddress(us, walletAddress) # NullUser
         THEN DirResult(NullUser, TRUE, us)
    ELSE IF findUserByUsername(us, username) # NullUser
         THEN DirResult(NullUser, TRUE, us)
    ELSE LET user == [id |-> newId,
                      username |-> normalizeUsername(username),
                      walletAddress |-> normalizeWalletAddress(walletAddress)]
         IN DirResult(user, FALSE, us \cup {user})

authenticateUser(us, username, walletAddress) ==
    IF ~isValidWalletAddress(walletAddress) \/ ~isValidUsername(username)
    THEN DirResult(NullUser, FALSE, us)
    ELSE LET user == findUserByWalletAddress(us, walletAddress)
         IN IF user = NullUser THEN DirResult(NullUser, FALSE, us)
            ELSE IF user.username # normalizeUsername(username)
                 THEN DirResult(NullUser, FALSE, us)
            ELSE DirResult(user, FALSE, us)

registerOrLoginUser(us, username, walletAddress, newId) ==
    LET existingUser == findUserByWalletAddress(us, walletAddress)
    IN IF existingUser # NullUser
       THEN LET authenticatedUser == authenticateUser(us, username, walletAddress)
            IN IF authenticatedUser.user = NullUser
               THEN DirResult(NullUser, TRUE, us)
               ELSE authenticatedUser
       ELSE createUser(us, username, walletAddress, newId)

\* -------------------------------------------------------------------- state
VARIABLES
    store,      \* Redis key space: set of [key, userId, createdAt], live keys only
    users,      \* the in-memory `users` Map: set of [id, username, walletAddress]
    procs,      \* in-flight requests: position and locals of each handler run
    response,   \* the HTTP response produced by the latest step, if any
    now,        \* wall clock, seconds
    nextToken,  \* number of refresh token values generated so far, plus one
    nextUid,    \* number of user ids generated so far, plus one
    reqs,       \* number of requests received so far
    faults,     \* number of Redis commands that faulted so far
    restarts,   \* number of server restarts so far
    issued,     \* history: [userId, token, parent, root, at] of every record written
    removed,    \* history: [key, by] of every key that left Redis, and how
    delivered   \* history: refresh token values sent to a client in Set-Cookie

sessionVars == <<store, users, procs, response, now, nextToken, nextUid, reqs,
                 faults, restarts, issued, removed, delivered>>

\* State of the parts of the program around the session store: the access
\* credential and the request gate.
VARIABLES
    atoks,      \* access tokens generateAccessToken has signed so far
    verified,   \* the latest credential check: token, time, both verdicts
    gate        \* the latest request through middleware and requireAuth

accessVars == <<atoks, verified, gate>>

\* State of the browser client (AuthProvider and useAuthenticatedFetch).
VARIABLES
    calls,            \* the authenticatedFetch calls: position and history
    isAuthenticated   \* authState.isAuthenticated

fetchVars == <<calls, isAuthenticated>>

\* State of the PIN game.
VARIABLES
    evaluation, \* one application of evaluateGuess: guess, secretCode, result
    pinRound,   \* Redis key pin-round:<roundId>: the stored round, or NoRound
    pinStats,   \* Redis key pin-stats:<wallet>:<roundId>, or NoStats
    gameNow,    \* Date.now() of the game server, in seconds
    greqs,      \* the game requests in flight, one per request slot
    started,    \* history: the round has been started
    evaluated,  \* history: number of guesses check-guess returned a result for
    lateResult, \* history: a guess got its result after the round was completed
    revealed    \* history: a response held the code of an uncompleted round

roundVars == <<pinRound, pinStats, gameNow, greqs, started, evaluated,
               lateResult, revealed>>
gameVars == <<evaluation, roundVars>>

\* State of the rate limiter and of the request deduplication.
VARIABLES
    nowMs,       \* Date.now() of the server, in milliseconds
    clientData,  \* clientStore entry of the one client
    limiterLog   \* history: the client's calls of multiTierRateLimit

limiterVars == <<clientData, limiterLog>>

VARIABLES
    requestStore, \* request-deduplication store: the tracked requests
    upreqs,       \* update-player requests waiting for writeContract
    txs,          \* history: the on-chain transactions submitted
    dedupTicks    \* history: number of time steps taken

dedupVars == <<requestStore, upreqs, txs, dedupTicks>>
serviceVars == <<nowMs, limiterVars, dedupVars>>
otherVars == <<accessVars, fetchVars, gameVars, serviceVars>>
vars == <<sessionVars, otherVars>>

\* A request: pc is the next step; op the handler; userId / token the cookie
\* values (for login, the id of the user logging in); keys the result of
\* KEYS.  History kept with it: found - the presented key was in Redis when
\* it was looked up; fault - the Redis commands of this request that
\* faulted; solo - no other request has taken a step since this one arrived.
Idle == [pc |-> "idle", op |-> "none", userId |-> Empty, token |-> Empty,
         newToken |-> Empty, keys |-> {}, found |-> FALSE, fault |-> {},
         solo |-> TRUE]

Req(op, pc, userId, token) ==
    [Idle EXCEPT !.op = op, !.pc = pc, !.userId = userId, !.token = token]

Faulted(pr, cmd) == [pr EXCEPT !.fault = pr.fault \cup {cmd}]

NoResponse ==
    [op |-> "none", status |-> 0, error |-> "", cookies |-> "none",
     userId |-> Empty, token |-> Empty, newToken |-> Empty, count |-> 0,
     found |-> FALSE, fault |-> {}, solo |-> TRUE]

\* The response of request pr: status and error text as in the handlers;
\* cookies is "set" (new access_token / refresh_token / user_id),
\* "cleared" (deleted or maxAge 0) or "none".
Resp(pr, status, error, cookies, newToken, count) ==
    [op |-> pr.op, status |-> status, error |-> error, cookies |-> cookies,
     userId |-> pr.userId, token |-> pr.token, newToken |-> newToken,
     count |-> count, found |-> pr.found, fault |-> pr.fault, solo |-> pr.solo]

\* Request p moves to record pr; every other in-flight request has now been
\* interleaved with.
StepTo(p, pr) ==
    [q \in Procs |->
        IF q = p THEN pr
        ELSE IF procs[q].pc # "idle" THEN [procs[q] EXCEPT !.solo = FALSE]
        ELSE procs[q]]

Finish(p, resp) ==
    /\ procs' = StepTo(p, Idle)
    /\ response' = resp

Continue(p, pr) ==
    /\ procs' = StepTo(p, pr)
    /\ response' = NoResponse

GeneratedUserIds == {UserSym(n) : n \in 1..(nextUid - 1)}
\* What the user_id cookie of a request can carry: an id the server handed
\* out, a string the client made up, or nothing.
CookieUserIds == GeneratedUserIds \cup {StarUserId, Empty}
\* <<user_id, refresh_token>> cookie pairs: a pair the server handed out
\* (still live or not), a made-up token, or no cookies.
CookiePairs ==
    {<<i.userId, i.token>> : i \in issued}
    \cup {<<u, ForgedToken>> : u \in GeneratedUserIds \cup {StarUserId}}
    \cup {<<Empty, Empty>>}

\* A request arrives.
Arrive == reqs < MaxRequests /\ reqs' = reqs + 1
\* A Redis command runs (ok) or faults.
Redis(ok) ==
    /\ ~ok => faults < MaxFaults
    /\ faults' = IF ok THEN faults ELSE faults + 1

\* ----------------------------------------------------------- Redis commands
RedisGet(st, key) == {r \in st : r.key = key}
RedisSetEx(st, key, ttl, userId, t) ==
    {r \in st : r.key # key}
    \cup {[key |-> key, userId |-> userId, createdAt |-> t, expireAt |-> t + ttl]}
RedisDel(st, keys) == {r \in st : r.key \notin keys}
RedisDelCount(st, keys) == Cardinality({r \in st : r.key \in keys})
RedisKeys(st, pattern) == {r.key : r \in {x \in st : GlobMatch(pattern, x.key)}}
RedisExpire(st, t) == {r \in st : t < r.expireAt}

\* ------------------------------------------------------------- tokens.ts
\* Mutant of storeRefreshToken: the TTL is TOKEN_CONFIG.ACCESS_TOKEN_EXPIRY.
storeRefreshToken_AccessExpiry(st, userId, refreshToken, t) ==
    RedisSetEx(st, RefreshKey(userId, refreshToken), 15 * 60, userId, t)

\* storeRefreshToken: SETEX key REFRESH_TOKEN_EXPIRY {userId, tokenId, createdAt}
\* (tokenId is written and never read; it is left out).
storeRefreshToken(st, userId, refreshToken, t) ==
    RedisSetEx(st, RefreshKey(userId, refreshToken), REFRESH_TOKEN_EXPIRY, userId, t)

\* validateRefreshToken: the record, or null (the empty set) when the key is
\* missing and also when the lookup faults.
validateRefreshToken(st, userId, refreshToken, ok) ==
    IF ok THEN RedisGet(st, RefreshKey(userId, refreshToken)) ELSE {}

\* Mutant of revokeRefreshToken: the key is built with the arguments swapped.
revokeRefreshToken_Swapped(st, userId, refreshToken, ok) ==
    [store |-> IF ok THEN RedisDel(st, {RefreshKey(refreshToken, userId)}) ELSE st,
     throws |-> FALSE]

\* Mutant of revokeRefreshToken: every key of the user is deleted.
revokeRefreshToken_AllOfUser(st, userId, refreshToken, ok) ==
    [store |-> IF ok THEN RedisDel(st, RedisKeys(st, RefreshPattern(userId))) ELSE st,
     throws |-> FALSE]

\* Mutant of revokeRefreshToken: the DEL is never issued.
revokeRefreshToken_Keep(st, userId, refreshToken, ok) ==
    [store |-> st, throws |-> FALSE]

\* Mutant of revokeRefreshToken: deleting an absent key is an error.
revokeRefreshToken_ThrowIfAbsent(st, userId, refreshToken, ok) ==
    [store |-> IF ok THEN RedisDel(st, {RefreshKey(userId, refreshToken)}) ELSE st,
     throws |-> ok /\ RedisGet(st, RefreshKey(userId, refreshToken)) = {}]

\* revokeRefreshToken: DEL key; a fault is logged and swallowed, and it never
\* throws, whatever the number of keys deleted.
revokeRefreshToken(st, userId, refreshToken, ok) ==
    [store |-> IF ok THEN RedisDel(st, {RefreshKey(userId, refreshToken)}) ELSE st,
     throws |-> FALSE]

\* Mutant of revokeAllKeys: only the first matching key is taken.
revokeAllKeys_First(st, userId) ==
    LET keys == RedisKeys(st, RefreshPattern(userId))
    IN IF keys = {} THEN {} ELSE {CHOOSE k \in keys : TRUE}

\* revokeAllUserTokens, first command: KEYS `refresh_token:${userId}:*`.
revokeAllKeys(st, userId) == RedisKeys(st, RefreshPattern(userId))

\* revokeAllUserTokens, second command: DEL keys, returning what DEL returns.
revokeAllDel(st, keys) ==
    [store |-> RedisDel(st, keys), deleted |-> RedisDelCount(st, keys)]

IssuedOf(token) == {i \in issued : i.token = token}
RootOf(token) ==
    IF IssuedOf(token) = {} THEN token ELSE (CHOOSE i \in IssuedOf(token) : TRUE).root
IssuedRec(userId, token, parent, t) ==
    [userId |-> userId, token |-> token, parent |-> parent,
     root |-> IF parent = Empty THEN token ELSE RootOf(parent), at |-> t]
\* The keys of st that are no longer in st2, with what removed them:
\* "rotate", "logout", "revokeAll" (DEL commands) or "ttl" (expiry).
Removed(st, st2, by) ==
    {[key |-> k, by |-> by] : k \in {r.key : r \in st} \ {r.key : r \in st2}}

\* ------------------------------------------------- access credential (JWT)
\* An access token is its three dot-separated parts, decoded: the payload
\* claims, and what the signature and the iss / aud claims verify as.  form
\* is "jwt" (three parts, payload decodes), "malformed" or "none" (no cookie).
\* exp is NoExp when the payload carries no exp claim.
NoExp == 0 - 1
ACCESS_TOKEN_EXPIRY == 15 * 60
Identity(userId, username, walletAddress) ==
    [userId |-> userId, username |-> username, walletAddress |-> walletAddress]
NullIdentity == Identity(Empty, "", "")
Jwt(form, sig, claims, id, iat, exp) ==
    [form |-> form, sig |-> sig, claims |-> claims, payload |-> id,
     iat |-> iat, exp |-> exp]
NoToken == Jwt("none", "none", "none", NullIdentity, 0, NoExp)

\* generateAccessToken: jwt.sign(payload, JWT_SECRET, {expiresIn: '15m',
\* issuer, audience}) at time t (seconds).
generateAccessToken(payload, t) ==
    Jwt("jwt", "server", "ok", payload, t, t + ACCESS_TOKEN_EXPIRY)

\* Mutant of verifyAccessToken: a token is refused once its user has no
\* refresh record in Redis.
verifyAccessToken_Revocable(token, t) ==
    IF token.form # "jwt" \/ token.sig # "server" \/ token.claims # "ok"
    THEN NullIdentity
    ELSE IF token.exp # NoExp /\ t >= token.exp THEN NullIdentity
    ELSE IF {r \in store : r.userId = token.payload.userId} = {} THEN NullIdentity
    ELSE token.payload

\* verifyAccessToken: jwt.verify(token, JWT_SECRET, {issuer, audience});
\* anything thrown (malformed, bad signature, wrong iss / aud, expired:
\* floor(now) >= exp) gives null.
verifyAccessToken(token, t) ==
    IF token.form # "jwt" \/ token.sig # "server" \/ token.claims # "ok"
    THEN NullIdentity
    ELSE IF token.exp # NoExp /\ t >= token.exp THEN NullIdentity
    ELSE token.payload

\* verifyAccessTokenEdge: three parts, payload decodes, and
\* `payload.exp && payload.exp < Date.now() / 1000` is false; the signature
\* is not looked at.  A missing exp and exp = 0 are both falsy.
verifyAccessTokenEdge(token, t) ==
    IF token.form # "jwt" THEN NullIdentity
    ELSE IF (token.exp # NoExp /\ token.exp # 0) /\ token.exp < t THEN NullIdentity
    ELSE token.payload

\* ------------------------------------------------------- request gate
\* Paths are sequences of symbols so that startsWith is computed.
StartsWith(str, prefix) ==
    /\ Len(prefix) <= Len(str)
    /\ SubSeq(str, 1, Len(prefix)) = prefix
PROTECTED_ROUTES ==
    {<<"/", "api", "/", "update-player">>, <<"/", "api", "/", "get-player">>,
     <<"/", "api", "/", "get-player", "-game">>, <<"/", "api", "/", "leaderboard">>,
     <<"/", "api", "/", "game">>, <<"/", "dashboard">>, <<"/", "profile">>,
     <<"/", "game">>}
AUTH_ROUTES ==
    {<<"/", "api", "/", "auth", "/", "login">>,
     <<"/", "api", "/", "auth", "/", "refresh">>,
     <<"/", "api", "/", "auth", "/", "logout">>}
PUBLIC_ROUTES ==
    {<<"/">>, <<"/", "login">>, <<"/", "register">>, <<"/", "about">>,
     <<"/", "_next">>, <<"/", "favicon.ico">>, <<"/", "assets">>}
isProtectedRoute(pathname) == \E route \in PROTECTED_ROUTES : StartsWith(pathname, route)
isAuthRoute(pathname) == \E route \in AUTH_ROUTES : StartsWith(pathname, route)
isPublicRoute(pathname) == \E route \in PUBLIC_ROUTES : StartsWith(pathname, route)
IsApiPath(pathname) == StartsWith(pathname, <<"/", "api", "/">>)

\* What the middleware returns: the verdict, and the x-user-id / x-username /
\* x-wallet-address headers the handler will see (NextResponse.next() hands
\* on the client's own headers; next({request: {headers}}) overwrites them).
\* injected: the headers were set by the middleware from a token payload.
Verdict(action, error, headers, injected) ==
    [action |-> action, error |-> error, headers |-> headers,
     injected |-> injected]
Rejected(pathname, error) ==
    IF IsApiPath(pathname) THEN Verdict("401", error, NullIdentity, FALSE)
    ELSE Verdict("redirect_login", "", NullIdentity, FALSE)

\* middleware(request): hasRefresh is `refreshToken && userId`.
middleware(pathname, accessToken, hasRefresh, clientHeaders, t) ==
    LET tokenPayload == verifyAccessTokenEdge(accessToken, t)
    IN IF isPublicRoute(pathname) \/ isAuthRoute(pathname)
       THEN Verdict("next", "", clientHeaders, FALSE)
       ELSE IF isProtectedRoute(pathname)
       THEN IF accessToken = NoToken
            THEN Rejected(pathname, "Authentication required")
            ELSE IF tokenPayload = NullIdentity
            THEN IF hasRefresh
                 THEN IF IsApiPath(pathname)
                      THEN Verdict("401", "Token expired", NullIdentity, FALSE)
                      ELSE Verdict("redirect_refresh", "", NullIdentity, FALSE)
                 ELSE Rejected(pathname, "Authentication required")
            ELSE IF IsApiPath(pathname)
                 THEN Verdict("next", "", tokenPayload, TRUE)
                 ELSE Verdict("next", "", clientHeaders, FALSE)
       ELSE IF accessToken # NoToken /\ tokenPayload # NullIdentity
               /\ IsApiPath(pathname)
            THEN Verdict("next", "", tokenPayload, TRUE)
            ELSE Verdict("next", "", clientHeaders, FALSE)

\* getAuthenticatedUser: the three identity headers, null unless all are set.
getAuthenticatedUser(headers) ==
    IF headers.username = "" \/ headers.walletAddress = "" \/ headers.userId = Empty
    THEN NullIdentity
    ELSE headers

\* requireAuth: the headers first, then the access_token cookie through
\* verifyAccessToken; NullIdentity stands for the thrown
\* 'Authentication required'.
requireAuth(headers, accessToken, t) ==
    IF getAuthenticatedUser(headers) # NullIdentity
    THEN getAuthenticatedUser(headers)
    ELSE IF accessToken # NoToken /\ verifyAccessToken(accessToken, t) # NullIdentity
    THEN verifyAccessToken(accessToken, t)
    ELSE NullIdentity

\* Request paths: a handler behind requireAuth outside and inside
\* PROTECTED_ROUTES, a protected handler without requireAuth, a protected
\* page, a public page, an auth route, an API route in no list.
CheckGuessPath == <<"/", "api", "/", "pin-game", "/", "check-guess">>
UpdatePlayerPath == <<"/", "api", "/", "update-player">>
GatePaths ==
    {CheckGuessPath, UpdatePlayerPath,
     <<"/", "api", "/", "get-player">>, <<"/", "game">>, <<"/", "login">>,
     <<"/", "api", "/", "auth", "/", "refresh">>, <<"/", "api", "/", "health">>}
CallsRequireAuth(pathname) == pathname \in {CheckGuessPath, UpdatePlayerPath}

\* The people of the access model, and what a client can put in a cookie
\* without the signing key.
Alice == Identity(UserSym(1), "alice", "0xaa")
Bob == Identity(UserSym(2), "bob", "0xbb")
AccessUsers == {Alice, Bob}
ForgedTokens ==
    {Jwt("jwt", "forged", "ok", Alice, 0, e) :
        e \in {NoExp, 0, 1, MaxAccessEpochs * ACCESS_TOKEN_EXPIRY + 1}}
    \cup {Jwt("jwt", "server", "other", Alice, 0, NoExp),
          Jwt("malformed", "none", "none", NullIdentity, 0, NoExp)}
ClientHeaders == {NullIdentity, Alice}

NoCheck == [token |-> NoToken, at |-> 0, full |-> NullIdentity, edge |-> NullIdentity]
NoGate ==
    [pathname |-> Empty, accessToken |-> NoToken, clientHeaders |-> NullIdentity,
     verdict |-> Verdict("none", "", NullIdentity, FALSE),
     identity |-> NullIdentity, at |-> 0]

AccessInit ==
    /\ atoks = {}
    /\ verified = NoCheck
    /\ gate = NoGate


SessionInit ==
    /\ store = {}
    /\ users = {}
    /\ procs = [p \in Procs |-> Idle]
    /\ response = NoResponse
    /\ now = 0
    /\ nextToken = 1
    /\ nextUid = 1
    /\ reqs = 0
    /\ faults = 0
    /\ restarts = 0
    /\ issued = {}
    /\ removed = {}
    /\ delivered = {}

\* ------------------------------------------------- client: authenticatedFetch
\* An HTTP exchange as the client sees it: the fetch promise rejects
\* ("error"), or resolves with a status and a body that parses as JSON or
\* does not, and that carries requiresRefresh or not.
Http(status, json, requiresRefresh) ==
    [status |-> status, json |-> json, requiresRefresh |-> requiresRefresh]
NetworkError == Http(0, FALSE, FALSE)
NoHttp == Http(0 - 1, FALSE, FALSE)
Responses ==
    {NetworkError, Http(200, TRUE, FALSE), Http(500, TRUE, FALSE),
     Http(401, TRUE, TRUE), Http(401, TRUE, FALSE), Http(401, FALSE, FALSE)}
\* Responses of POST /api/auth/refresh, breach included.
RefreshResponses ==
    {NetworkError, Http(200, TRUE, FALSE), Http(200, FALSE, FALSE),
     Http(401, TRUE, FALSE), Http(500, TRUE, FALSE)}

\* Mutant of needsRefresh: every 401 starts a refresh.
needsRefresh_Any401(res) == res.status = 401

\* `response.status === 401` and then `errorData.requiresRefresh`.
needsRefresh(res) == res.status = 401 /\ res.requiresRefresh

\* refreshToken(): true when the refresh response is ok and its body
\* parses; a rejected fetch or a body that does not parse is caught: false.
clientRefreshToken(res) == res.status = 200 /\ res.json

\* One call of authenticatedFetch: sends counts the fetches of the original
\* request, refreshes the calls of refreshToken, logouts the calls of logout;
\* first / refreshed / last are the responses received; result is
\* "returned" or the message of the error thrown.
IdleCall ==
    [pc |-> "idle", sends |-> 0, refreshes |-> 0, logouts |-> 0,
     first |-> NoHttp, refreshed |-> NoHttp, last |-> NoHttp, result |-> ""]
Calls == 1..NumCalls

FetchInit ==
    /\ calls = [c \in Calls |-> IdleCall]
    /\ isAuthenticated = TRUE

\* ------------------------------------------------------------- PIN game
\* A code is a string of four digits; the digits are 0 .. NumDigits - 1.
Positions == 1..4
Codes == [Positions -> 0..(NumDigits - 1)]
\* evaluateGuess compares digits only for equality, so a secret is taken up
\* to a renaming of the digits: its digits are numbered 0, 1, 2, 3 in the
\* order of their first occurrence.  A guess and a secret hold at most eight
\* different digits together.
SecretCodes ==
    {c \in [Positions -> 0..3] :
        /\ c[1] = 0
        /\ \A i \in 2..4 : \E j \in 1..(i - 1) : c[i] <= c[j] + 1}
GuessResult(correct, close) == [correct |-> correct, close |-> close]
NoResult == GuessResult(0 - 1, 0 - 1)

\* Second pass of evaluateGuess from guess position i on: every guess
\* position without an exact match takes the first secret position that is
\* still unused and holds its digit.
RECURSIVE SecondPass(_, _, _, _, _)
SecondPass(guessDigits, secretDigits, i, usedSecretIndices, usedGuessIndices) ==
    IF i > 4 THEN 0
    ELSE IF i \in usedGuessIndices
    THEN SecondPass(guessDigits, secretDigits, i + 1, usedSecretIndices,
                    usedGuessIndices)
    ELSE LET hits == {j \in Positions : /\ j \notin usedSecretIndices
                                        /\ guessDigits[i] = secretDigits[j]}
         IN IF hits = {}
            THEN SecondPass(guessDigits, secretDigits, i + 1, usedSecretIndices,
                            usedGuessIndices)
            ELSE 1 + SecondPass(guessDigits, secretDigits, i + 1,
                                usedSecretIndices
                                  \cup {CHOOSE j \in hits : \A k \in hits : j <= k},
                                usedGuessIndices)

\* Mutant of evaluateGuess: a secret position taken by one guess digit is
\* not marked as used.
evaluateGuess_Unmarked(guess, secretCode) ==
    LET exact == {i \in Positions : guess[i] = secretCode[i]}
    IN GuessResult(Cardinality(exact),
                   Cardinality({i \in Positions \ exact :
                                  \E j \in Positions \ exact :
                                      guess[i] = secretCode[j]}))

\* evaluateGuess: first pass counts and marks the exact matches, second
\* pass the right digits in wrong positions.
evaluateGuess(guess, secretCode) ==
    LET exact == {i \in Positions : guess[i] = secretCode[i]}
    IN GuessResult(Cardinality(exact),
                   SecondPass(guess, secretCode, 1, exact, exact))

NoCode == [i \in Positions |-> 0 - 1]
EvaluationInit ==
    evaluation = [guess |-> NoCode, secretCode |-> NoCode, result |-> NoResult]

\* One round of one player.  generateSecretCode draws four different digits
\* 0 .. 8, the first one not 0.
GAME_TIME == 5 * 60
ROUND_TTL == 600
MAX_SCORE_PER_REQUEST == 10000
SecretCode == <<1, 0, 2, 3>>
WrongCode == <<1, 2, 0, 4>>
Guesses == {SecretCode, WrongCode}
Owner == "0xaa"
Wallets == {Owner, "0xbb"}
\* End reasons: none given, one that keeps the state ('completed', 'manual'),
\* 'timeout', 'abandoned', and one that is not in validReasons.
Reasons == {"", "completed", "timeout", "abandoned", "other"}
GameSlots == 1..NumGameSlots

NoRound == [walletAddress |-> "", secretCode |-> NoCode, startTime |-> 0 - 1,
            attempts |-> <<>>, maxAttempts |-> 0, isCompleted |-> FALSE,
            isWon |-> FALSE, score |-> 0]
\* Of the statistics record, the fields that do not repeat the round's.
NoStats == [walletAddress |-> "", secretCode |-> NoCode]

\* A response of a game handler; secretCode is NoCode and result is NoResult
\* when the body has no such field.  scoreAmount is the score sent to
\* update-player before the response, late tells that the stored round was
\* already completed when the handler wrote its own round data.
GameResp(op, status, error, secretCode, result, isCompleted) ==
    [op |-> op, status |-> status, error |-> error, secretCode |-> secretCode,
     result |-> result, isCompleted |-> isCompleted, scoreAmount |-> 0 - 1,
     late |-> FALSE]
GameError(op, status, error) ==
    GameResp(op, status, error, NoCode, NoResult, FALSE)
NoGameResponse == GameError("none", 0, "")

IdleGame == [op |-> "none", pc |-> "idle", roundData |-> NoRound,
             resp |-> NoGameResponse]
GameReq(op, pc, roundData, resp) ==
    [op |-> op, pc |-> pc, roundData |-> roundData, resp |-> resp]

MaxOf(a, b) == IF a > b THEN a ELSE b

\* What a handler does with the round data it read: the response it sends,
\* and, when write is TRUE, the round data it stores before responding.
Outcome(roundData, resp, write) ==
    [roundData |-> roundData, resp |-> resp, write |-> write]
Reject(op, status, error) == Outcome(NoRound, GameError(op, status, error), FALSE)

\* Mutant of winScore: the attempt bonus is 1000 per attempt left.
winScore_Thousand(maxAttempts, attemptNumber, timeUsed) ==
    1000 + MaxOf(0, GAME_TIME - timeUsed)
         + MaxOf(0, (maxAttempts - attemptNumber) * 1000)

\* Score of a won game: 1000, the seconds left of the game time, and 100 for
\* every attempt left.
winScore(maxAttempts, attemptNumber, timeUsed) ==
    1000 + MaxOf(0, GAME_TIME - timeUsed)
         + MaxOf(0, (maxAttempts - attemptNumber) * 100)

\* check-guess POST after redis.get returned rd, for the authenticated
\* wallet and a four-digit guess, at time t.
checkGuess(rd, wallet, guess, t) ==
    IF rd = NoRound THEN Reject("guess", 404, "Round not found or expired")
    ELSE IF rd.walletAddress # wallet
    THEN Reject("guess", 403, "Round does not belong to user")
    ELSE IF rd.isCompleted THEN Reject("guess", 400, "Game is already completed")
    ELSE IF Len(rd.attempts) >= rd.maxAttempts
    THEN Reject("guess", 400, "Maximum attempts reached")
    ELSE IF t - rd.startTime > GAME_TIME
    THEN Outcome([rd EXCEPT !.isCompleted = TRUE, !.isWon = FALSE],
                 GameResp("guess", 400, "Game time expired (5 minutes)",
                          NoCode, NoResult, TRUE),
                 TRUE)
    ELSE
      LET guessResult == evaluateGuess(guess, rd.secretCode)
          attemptNumber == Len(rd.attempts) + 1
          pushed == [rd EXCEPT !.attempts =
                        Append(@, [guess |-> guess, result |-> guessResult,
                                   attemptNumber |-> attemptNumber])]
          rd2 == IF guessResult.correct = 4
                 THEN [pushed EXCEPT !.isCompleted = TRUE, !.isWon = TRUE,
                                     !.score = winScore(rd.maxAttempts,
                                                        attemptNumber,
                                                        t - rd.startTime)]
                 ELSE IF attemptNumber >= rd.maxAttempts
                 THEN [pushed EXCEPT !.isCompleted = TRUE, !.isWon = FALSE,
                                     !.score = 0]
                 ELSE pushed
          resp == GameResp("guess", 200, "",
                           IF rd2.isCompleted THEN rd2.secretCode ELSE NoCode,
                           guessResult, rd2.isCompleted)
      IN Outcome(rd2,
                 [resp EXCEPT !.scoreAmount =
                     IF rd2.isWon /\ rd2.score > 0 THEN rd2.score ELSE 0 - 1],
                 TRUE)

\* Round status GET after redis.get returned rd.
roundStatus(rd, wallet, t) ==
    IF rd = NoRound THEN Reject("status", 404, "Round not found or expired")
    ELSE IF rd.walletAddress # wallet
    THEN Reject("status", 403, "Round does not belong to user")
    ELSE
      LET wasUpdated == t - rd.startTime > GAME_TIME /\ ~rd.isCompleted
          rd2 == IF wasUpdated
                 THEN [rd EXCEPT !.isCompleted = TRUE, !.isWon = FALSE,
                                 !.score = 0]
                 ELSE rd
      IN Outcome(rd2,
                 GameResp("status", 200, "",
                          IF rd2.isCompleted THEN rd2.secretCode ELSE NoCode,
                          NoResult, rd2.isCompleted),
                 wasUpdated)

\* End-round POST after redis.get returned rd.
endRound(rd, wallet, reason) ==
    IF rd = NoRound THEN Reject("end", 404, "Round not found or expired")
    ELSE IF rd.walletAddress # wallet
    THEN Reject("end", 403, "Round does not belong to user")
    ELSE
      LET endReason == IF reason # "" THEN reason
                       ELSE IF rd.isWon THEN "completed" ELSE "abandoned"
          ended == [rd EXCEPT !.isCompleted = TRUE]
          rd2 == IF rd.isCompleted THEN rd
                 ELSE IF endReason = "timeout"
                 THEN [ended EXCEPT !.isWon = FALSE, !.score = 0]
                 ELSE IF endReason = "abandoned"
                 THEN [ended EXCEPT !.isWon = FALSE]
                 ELSE ended
      IN Outcome(rd2,
                 GameResp("end", 200, "", rd2.secretCode, NoResult,
                          rd2.isCompleted),
                 TRUE)

\* End-round statistics GET after the two redis.get calls returned st (the
\* caller's statistics key) and rd.
endRoundStats(st, rd, wallet) ==
    IF st # NoStats /\ st.walletAddress = wallet
    THEN GameResp("stats", 200, "", st.secretCode, NoResult, TRUE)
    ELSE IF rd = NoRound THEN GameError("stats", 404, "Round statistics not found")
    ELSE IF rd.walletAddress # wallet
    THEN GameError("stats", 403, "Round does not belong to user")
    ELSE GameResp("stats", 200, "", rd.secretCode, NoResult, rd.isCompleted)

RoundInit ==
    /\ pinRound = NoRound
    /\ pinStats = NoStats
    /\ gameNow = 0
    /\ greqs = [p \in GameSlots |-> IdleGame]
    /\ started = FALSE
    /\ evaluated = 0
    /\ lateResult = FALSE
    /\ revealed = FALSE

GameInit == EvaluationInit /\ RoundInit

\* ---------------------------------------------------------- rate limiter
\* clientStore.get(clientId) creates the entry of a client it does not hold;
\* the one client of the model starts with that entry.
ClientData(requests, blocked, blockUntil) ==
    [requests |-> requests, blocked |-> blocked, blockUntil |-> blockUntil]
RateLimitResult(allowed, remaining, resetTime) ==
    [allowed |-> allowed, remaining |-> remaining, resetTime |-> resetTime]
Limited(cd, result) == [clientData |-> cd, result |-> result]

MinOf(a, b) == IF a < b THEN a ELSE b
RECURSIVE Pow2(_)
Pow2(n) == IF n = 0 THEN 1 ELSE 2 * Pow2(n - 1)

\* rateLimit(clientId, { maxRequests, windowMs }) at time t on the client's
\* entry cd: the entry it leaves and the result it returns.
rateLimit(cd, maxRequests, windowMs, t) ==
    IF cd.blocked /\ t < cd.blockUntil
    THEN Limited(cd, RateLimitResult(FALSE, 0, cd.blockUntil))
    ELSE
      LET kept == SelectSeq(cd.requests, LAMBDA time : time > t - windowMs)
          currentRequests == Len(kept)
          remaining == MaxOf(0, maxRequests - currentRequests)
          blockDuration ==
              MinOf(30 * 60 * 1000,
                    Pow2(currentRequests \div maxRequests) * 60 * 1000)
      IN IF currentRequests >= maxRequests
         THEN Limited(ClientData(kept, TRUE, t + blockDuration),
                      RateLimitResult(FALSE, 0, t + blockDuration))
         ELSE Limited(ClientData(Append(kept, t), FALSE, 0),
                      RateLimitResult(TRUE, remaining - 1, t + windowMs))

\* multiTierRateLimit: the three tiers run rateLimit one after the other on
\* the same entry of the client.
multiTierRateLimit(cd, t) ==
    LET minuteLimit == rateLimit(cd, 60, 60 * 1000, t)
        hourLimit == rateLimit(minuteLimit.clientData, 600, 60 * 60 * 1000, t)
        dayLimit == rateLimit(hourLimit.clientData, 8000, 24 * 60 * 60 * 1000, t)
    IN IF ~minuteLimit.result.allowed THEN minuteLimit
       ELSE IF ~hourLimit.result.allowed THEN hourLimit
       ELSE IF ~dayLimit.result.allowed THEN dayLimit
       ELSE Limited(dayLimit.clientData,
                    RateLimitResult(TRUE,
                        MinOf(minuteLimit.result.remaining,
                              MinOf(hourLimit.result.remaining,
                                    dayLimit.result.remaining)),
                        MinOf(minuteLimit.result.resetTime,
                              MinOf(hourLimit.result.resetTime,
                                    dayLimit.result.resetTime))))

\* The log holds the number of calls made, the time of the first one, the
\* number of the first call refused within one minute of the first (0: none)
\* and the last result.
LimiterInit ==
    /\ clientData = ClientData(<<>>, FALSE, 0)
    /\ limiterLog = [count |-> 0, firstAt |-> 0, firstRefused |-> 0,
                     result |-> RateLimitResult(TRUE, 0, 0)]

\* -------------------------------------------------- request deduplication
RECENT_THRESHOLD == 5 * 60 * 1000
UpdateSlots == 1..NumUpdateSlots
\* (playerAddress, scoreAmount, transactionAmount) of the update requests.
Updates == {<<"0xaa", 1500, 1>>, <<"0xaa", 2000, 1>>}

\* generateRequestId: the SHA-256 digest of
\* `playerAddress:scoreAmount:transactionAmount:Date.now()`, taken as
\* different for different strings.
generateRequestId(playerAddress, scoreAmount, transactionAmount, t) ==
    <<playerAddress, scoreAmount, transactionAmount, t>>

RequestData(id, timestamp, status) ==
    [id |-> id, timestamp |-> timestamp, status |-> status]

isDuplicateRequest(rs, requestId, t) ==
    \E r \in rs :
        /\ r.id = requestId
        /\ \/ r.status = "processing"
           \/ r.status = "completed" /\ t - r.timestamp < RECENT_THRESHOLD

markRequestProcessing(rs, requestId, t) ==
    {r \in rs : r.id # requestId} \cup {RequestData(requestId, t, "processing")}

markRequestComplete(rs, requestId, t) ==
    {IF r.id = requestId THEN RequestData(requestId, t, "completed") ELSE r :
        r \in rs}

\* A request for the same (playerAddress, scoreAmount, transactionAmount) is
\* in status processing, or was completed less than five minutes before t.
Repeats(rs, update, t) ==
    \E r \in rs :
        /\ <<r.id[1], r.id[2], r.id[3]>> = update
        /\ \/ r.status = "processing"
           \/ r.status = "completed" /\ t - r.timestamp < RECENT_THRESHOLD

IdleUpdate == [pc |-> "idle", requestId |-> <<>>, repeats |-> FALSE]

DedupInit ==
    /\ requestStore = {}
    /\ upreqs = [p \in UpdateSlots |-> IdleUpdate]
    /\ txs = {}
    /\ dedupTicks = 0

ServiceInit == nowMs = 0 /\ LimiterInit /\ DedupInit

OtherInit == AccessInit /\ FetchInit /\ GameInit /\ ServiceInit

Init == SessionInit /\ OtherInit

\* ------------------------------------------------------ POST /api/auth/login
\* testRedisConnection, body validation, registerOrLoginUser, token generation.
Login(p, username, walletAddress, ok) ==
    /\ procs[p].pc = "idle"
    /\ Arrive
    /\ Redis(ok)
    /\ LET pr == Req("login", "login_store", Empty, Empty)
           reg == registerOrLoginUser(users, username, walletAddress, UserSym(nextUid))
       IN IF ~ok
          THEN /\ Finish(p, Resp(Faulted(pr, "ping"), 503,
                                 "Authentication service unavailable", "none", Empty, 0))
               /\ UNCHANGED <<users, nextUid, nextToken>>
          ELSE IF username.base = "" \/ walletAddress.base = ""
          THEN /\ Finish(p, Resp(pr, 400, "Username and wallet address are required",
                                 "none", Empty, 0))
               /\ UNCHANGED <<users, nextUid, nextToken>>
          ELSE IF reg.throws
          THEN /\ Finish(p, Resp(pr, 401, "Authentication failed", "none", Empty, 0))
               /\ UNCHANGED <<users, nextUid, nextToken>>
          ELSE /\ nextToken <= MaxTokens
               /\ (reg.users # users) => (nextUid <= MaxUsers)
               /\ users' = reg.users
               /\ nextUid' = IF reg.users # users THEN nextUid + 1 ELSE nextUid
               /\ nextToken' = nextToken + 1
               /\ Continue(p, [pr EXCEPT !.userId = reg.user.id,
                                         !.newToken = TokenSym(nextToken)])
    /\ UNCHANGED <<store, now, restarts, issued, removed, delivered>>
    /\ UNCHANGED otherVars

\* storeRefreshToken(user.id, refreshToken, tokenId), then the Set-Cookie
\* response; a fault makes storeRefreshToken throw: 500, no cookie.
LoginStore(p, ok) ==
    /\ procs[p].pc = "login_store"
    /\ Redis(ok)
    /\ LET pr == procs[p]
       IN IF ok
          THEN /\ store' = storeRefreshToken(store, pr.userId, pr.newToken, now)
               /\ issued' = issued \cup {IssuedRec(pr.userId, pr.newToken, Empty, now)}
               /\ delivered' = delivered \cup {pr.newToken}
               /\ Finish(p, Resp(pr, 200, "", "set", pr.newToken, 0))
          ELSE /\ Finish(p, Resp(Faulted(pr, "setex"), 500,
                                 "Internal server error", "none", Empty, 0))
               /\ UNCHANGED <<store, issued, delivered>>
    /\ UNCHANGED <<users, now, nextToken, nextUid, reqs, restarts, removed>>
    /\ UNCHANGED otherVars

\* ---------------------------------------------------- POST /api/auth/refresh
\* Without both cookies: 401, no Redis command.
\* GET /api/auth/refresh, the auth-status check: it passes the cookies to
\* validateRefreshToken as (refreshToken, userId), reads the store once and
\* answers 200 with valid true or false.  It takes no request slot.
AuthStatus(userId, refreshToken, ok) ==
    /\ Redis(ok)
    /\ LET pr0 == [Req("status", "idle", userId, refreshToken)
                      EXCEPT !.found = RedisGet(store, RefreshKey(userId, refreshToken)) # {}]
           pr == IF ok THEN pr0 ELSE Faulted(pr0, "get")
       IN response' =
            IF refreshToken = Empty \/ userId = Empty
            THEN Resp(pr0, 200, "No tokens found", "none", Empty, 0)
            ELSE IF validateRefreshToken(store, refreshToken, userId, ok) = {}
            THEN Resp(pr, 200, "Invalid refresh token", "none", Empty, 0)
            ELSE IF findUserById(users, userId) = NullUser
            THEN Resp(pr, 200, "User not found", "none", Empty, 0)
            ELSE Resp(pr, 200, "", "none", Empty, 0)
    /\ UNCHANGED <<store, users, procs, now, nextToken, nextUid, reqs, restarts,
                   issued, removed, delivered>>
    /\ UNCHANGED otherVars

RefreshNoCookies(p, userId, refreshToken) ==
    /\ procs[p].pc = "idle"
    /\ refreshToken = Empty \/ userId = Empty
    /\ Arrive
    /\ Finish(p, Resp(Req("refresh", "idle", userId, refreshToken), 401,
                      "No refresh token provided", "none", Empty, 0))
    /\ UNCHANGED <<store, users, now, nextToken, nextUid, faults, restarts,
                   issued, removed, delivered>>
    /\ UNCHANGED otherVars

\* validateRefreshToken(userId, refreshToken); null leads to the breach
\* branch; otherwise findUserById(userId), null answering 401.
Refresh(p, userId, refreshToken, ok) ==
    /\ procs[p].pc = "idle"
    /\ refreshToken # Empty /\ userId # Empty
    /\ Arrive
    /\ Redis(ok)
    /\ LET tokenData == validateRefreshToken(store, userId, refreshToken, ok)
           pr0 == [Req("refresh", "refresh_revoke", userId, refreshToken)
                      EXCEPT !.found = RedisGet(store, RefreshKey(userId, refreshToken)) # {}]
           pr == IF ok THEN pr0 ELSE Faulted(pr0, "get")
       IN IF tokenData = {}
          THEN Continue(p, [pr EXCEPT !.pc = "rev_keys"])
          ELSE IF findUserById(users, userId) = NullUser
          THEN Finish(p, Resp(pr, 401, "User not found", "none", Empty, 0))
          ELSE Continue(p, pr)
    /\ UNCHANGED <<store, users, now, nextToken, nextUid, restarts, issued,
                   removed, delivered>>
    /\ UNCHANGED otherVars

\* revokeRefreshToken(userId, refreshToken), then the new token values are
\* generated; anything thrown is caught by the handler: 500.
RefreshRevoke(p, ok) ==
    /\ procs[p].pc = "refresh_revoke"
    /\ nextToken <= MaxTokens
    /\ Redis(ok)
    /\ LET pr0 == procs[p]
           pr == IF ok THEN pr0 ELSE Faulted(pr0, "del")
           rv == revokeRefreshToken(store, pr.userId, pr.token, ok)
       IN /\ store' = rv.store
          /\ removed' = removed \cup Removed(store, rv.store, "rotate")
          /\ IF rv.throws
             THEN /\ Finish(p, Resp(pr, 500, "Token refresh failed", "none", Empty, 0))
                  /\ nextToken' = nextToken
             ELSE /\ Continue(p, [pr EXCEPT !.pc = "refresh_store",
                                            !.newToken = TokenSym(nextToken)])
                  /\ nextToken' = nextToken + 1
    /\ UNCHANGED <<users, now, nextUid, reqs, restarts, issued, delivered>>
    /\ UNCHANGED otherVars

\* storeRefreshToken(userId, newRefreshToken, newTokenId), then the Set-Cookie
\* response; a fault makes storeRefreshToken throw: 500, no cookie.
RefreshStore(p, ok) ==
    /\ procs[p].pc = "refresh_store"
    /\ Redis(ok)
    /\ LET pr == procs[p]
       IN IF ok
          THEN /\ store' = storeRefreshToken(store, pr.userId, pr.newToken, now)
               /\ issued' = issued \cup {IssuedRec(pr.userId, pr.newToken, pr.token, now)}
               /\ delivered' = delivered \cup {pr.newToken}
               /\ Finish(p, Resp(pr, 200, "", "set", pr.newToken, 0))
          ELSE /\ Finish(p, Resp(Faulted(pr, "setex"), 500,
                                 "Token refresh failed", "none", Empty, 0))
               /\ UNCHANGED <<store, issued, delivered>>
    /\ UNCHANGED <<users, now, nextToken, nextUid, reqs, restarts, removed>>
    /\ UNCHANGED otherVars

\* ------------------------------------------------------- revokeAllUserTokens
\* What the caller of revokeAllUserTokens answers once it has returned count:
\* the breach response of refresh, or the success response of logout-all.
RevokeAllResp(pr, count) ==
    IF pr.op = "refresh"
    THEN Resp(pr, 401, "Security breach detected. All sessions terminated.",
              "cleared", Empty, count)
    ELSE Resp(pr, 200, "", "cleared", Empty, count)

\* redis.keys(pattern); a fault, or no key, makes revokeAllUserTokens return 0.
RevokeKeys(p, ok) ==
    /\ procs[p].pc = "rev_keys"
    /\ Redis(ok)
    /\ LET pr == procs[p]
           keys == revokeAllKeys(store, pr.userId)
       IN IF ~ok
          THEN Finish(p, RevokeAllResp(Faulted(pr, "keys"), 0))
          ELSE IF keys = {}
          THEN Finish(p, RevokeAllResp(pr, 0))
          ELSE Continue(p, [pr EXCEPT !.pc = "rev_del", !.keys = keys])
    /\ UNCHANGED <<store, users, now, nextToken, nextUid, reqs, restarts,
                   issued, removed, delivered>>
    /\ UNCHANGED otherVars

\* redis.del(keys); a fault makes revokeAllUserTokens return 0.
RevokeDel(p, ok) ==
    /\ procs[p].pc = "rev_del"
    /\ Redis(ok)
    /\ LET pr == procs[p]
           rv == revokeAllDel(store, pr.keys)
       IN IF ok
          THEN /\ store' = rv.store
               /\ removed' = removed \cup Removed(store, rv.store, "revokeAll")
               /\ Finish(p, RevokeAllResp(pr, rv.deleted))
          ELSE /\ UNCHANGED <<store, removed>>
               /\ Finish(p, RevokeAllResp(Faulted(pr, "delall"), 0))
    /\ UNCHANGED <<users, now, nextToken, nextUid, reqs, restarts, issued, delivered>>
    /\ UNCHANGED otherVars

\* ------------------------------------------------------ /api/auth/logout
\* POST without both cookies: clear the cookies, no Redis command.
LogoutNoCookies(p, userId, refreshToken) ==
    /\ procs[p].pc = "idle"
    /\ refreshToken = Empty \/ userId = Empty
    /\ Arrive
    /\ Finish(p, Resp(Req("logout", "idle", userId, refreshToken), 200, "",
                      "cleared", Empty, 0))
    /\ UNCHANGED <<store, users, now, nextToken, nextUid, faults, restarts,
                   issued, removed, delivered>>
    /\ UNCHANGED otherVars

\* POST: clear the cookies and revokeRefreshToken(userId, refreshToken);
\* anything thrown is caught by the handler: 500.
Logout(p, userId, refreshToken, ok) ==
    /\ procs[p].pc = "idle"
    /\ refreshToken # Empty /\ userId # Empty
    /\ Arrive
    /\ Redis(ok)
    /\ LET pr0 == [Req("logout", "idle", userId, refreshToken)
                      EXCEPT !.found = RedisGet(store, RefreshKey(userId, refreshToken)) # {}]
           pr == IF ok THEN pr0 ELSE Faulted(pr0, "del")
           rv == revokeRefreshToken(store, userId, refreshToken, ok)
       IN /\ store' = rv.store
          /\ removed' = removed \cup Removed(store, rv.store, "logout")
          /\ IF rv.throws
             THEN Finish(p, Resp(pr, 500, "Logout failed", "none", Empty, 0))
             ELSE Finish(p, Resp(pr, 200, "", "cleared", Empty, 0))
    /\ UNCHANGED <<users, now, nextToken, nextUid, restarts, issued, delivered>>
    /\ UNCHANGED otherVars

\* DELETE: the user_id cookie, then revokeAllUserTokens(userId).
LogoutAll(p, userId) ==
    /\ procs[p].pc = "idle"
    /\ Arrive
    /\ LET pr == Req("logoutAll", "rev_keys", userId, Empty)
       IN IF userId = Empty
          THEN Finish(p, Resp(pr, 401, "No active session found", "none", Empty, 0))
          ELSE Continue(p, pr)
    /\ UNCHANGED <<store, users, now, nextToken, nextUid, faults, restarts,
                   issued, removed, delivered>>
    /\ UNCHANGED otherVars

\* ------------------------------------------------------------ environment
\* Time passes; Redis drops the keys whose TTL has run out.
Tick(d) ==
    /\ now + d <= MaxTime
    /\ now' = now + d
    /\ store' = RedisExpire(store, now + d)
    /\ removed' = removed \cup Removed(store, RedisExpire(store, now + d), "ttl")
    /\ response' = NoResponse
    /\ UNCHANGED <<users, procs, nextToken, nextUid, reqs, faults, restarts,
                   issued, delivered>>
    /\ UNCHANGED otherVars

\* The server process restarts: the `users` Map and the requests in flight
\* are lost, Redis keeps its keys.
Restart ==
    /\ restarts < MaxRestarts
    /\ users # {}
    /\ restarts' = restarts + 1
    /\ users' = {}
    /\ procs' = [p \in Procs |-> Idle]
    /\ response' = NoResponse
    /\ UNCHANGED <<store, now, nextToken, nextUid, reqs, faults, issued,
                   removed, delivered>>
    /\ UNCHANGED otherVars

Next ==
    \/ \E p \in Procs, in \in LoginInputs, ok \in BOOLEAN : Login(p, in[1], in[2], ok)
    \/ \E p \in Procs, ok \in BOOLEAN : LoginStore(p, ok)
    \/ \E p \in Procs, c \in CookiePairs : RefreshNoCookies(p, c[1], c[2])
    \/ \E p \in Procs, c \in CookiePairs, ok \in BOOLEAN : Refresh(p, c[1], c[2], ok)
    \/ \E p \in Procs, ok \in BOOLEAN : RefreshRevoke(p, ok)
    \/ \E p \in Procs, ok \in BOOLEAN : RefreshStore(p, ok)
    \/ \E p \in Procs, ok \in BOOLEAN : RevokeKeys(p, ok)
    \/ \E p \in Procs, ok \in BOOLEAN : RevokeDel(p, ok)
    \/ \E p \in Procs, c \in CookiePairs : LogoutNoCookies(p, c[1], c[2])
    \/ \E p \in Procs, c \in CookiePairs, ok \in BOOLEAN : Logout(p, c[1], c[2], ok)
    \/ \E p \in Procs, userId \in CookieUserIds : LogoutAll(p, userId)
    \/ \E d \in TickSizes : Tick(d)
    \/ Restart

Spec == Init /\ [][Next]_vars

\* The session handlers together with the auth-status check, which reads the
\* store and changes nothing but the response.
StatusNext ==
    \/ Next
    \/ \E c \in CookiePairs, ok \in BOOLEAN : AuthStatus(c[1], c[2], ok)

SpecStatus == Init /\ [][StatusNext]_vars

\* ============================================== access credential and gate
\* Login as far as the credentials go: generateAccessToken and
\* storeRefreshToken for a registered user.
AccessLogin(id) ==
    /\ nextToken <= MaxAccessTokens
    /\ atoks' = atoks \cup {generateAccessToken(id, now)}
    /\ store' = storeRefreshToken(store, id.userId, TokenSym(nextToken), now)
    /\ nextToken' = nextToken + 1
    /\ verified' = NoCheck /\ gate' = NoGate
    /\ UNCHANGED <<users, procs, response, now, nextUid, reqs, faults, restarts,
                   issued, removed, delivered, fetchVars, gameVars, serviceVars>>

\* Logout-all or breach revocation: revokeAllUserTokens(userId).
AccessRevokeAll(id) ==
    /\ {r \in store : r.userId = id.userId} # {}
    /\ store' = revokeAllDel(store, revokeAllKeys(store, id.userId)).store
    /\ verified' = NoCheck /\ gate' = NoGate
    /\ UNCHANGED <<users, procs, response, now, nextToken, nextUid, reqs, faults,
                   restarts, issued, removed, delivered, atoks, fetchVars,
                   gameVars, serviceVars>>

\* The clock is observed one second before an access token expires and
\* when it has.
AccessTick(d) ==
    /\ now + d <= MaxAccessEpochs * ACCESS_TOKEN_EXPIRY
    /\ now' = now + d
    /\ store' = RedisExpire(store, now + d)
    /\ verified' = NoCheck /\ gate' = NoGate
    /\ UNCHANGED <<users, procs, response, nextToken, nextUid, reqs, faults,
                   restarts, issued, removed, delivered, atoks, fetchVars,
                   gameVars, serviceVars>>

\* A credential is checked by the full and by the edge verification.  (The
\* outcome of a check or of a request is looked at before the next one.)
CheckSession(token) ==
    /\ verified = NoCheck /\ gate = NoGate
    /\ verified' = [token |-> token, at |-> now,
                    full |-> verifyAccessToken(token, now),
                    edge |-> verifyAccessTokenEdge(token, now)]
    /\ gate' = NoGate
    /\ UNCHANGED <<sessionVars, atoks, fetchVars, gameVars, serviceVars>>

\* A request passes the middleware and, when it is let through to a handler
\* that calls requireAuth, that call.
GateRequest(pathname, accessToken, hasRefresh, clientHeaders) ==
    /\ verified = NoCheck /\ gate = NoGate
    /\ LET verdict == middleware(pathname, accessToken, hasRefresh, clientHeaders, now)
       IN gate' = [pathname |-> pathname, accessToken |-> accessToken,
                   clientHeaders |-> clientHeaders, verdict |-> verdict,
                   identity |-> IF verdict.action = "next" /\ CallsRequireAuth(pathname)
                                THEN requireAuth(verdict.headers, accessToken, now)
                                ELSE NullIdentity,
                   at |-> now]
    /\ verified' = NoCheck
    /\ UNCHANGED <<sessionVars, atoks, fetchVars, gameVars, serviceVars>>

AccessNext ==
    \/ \E id \in AccessUsers : AccessLogin(id)
    \/ \E id \in AccessUsers : AccessRevokeAll(id)
    \/ \E d \in {ACCESS_TOKEN_EXPIRY - 1, ACCESS_TOKEN_EXPIRY} : AccessTick(d)
    \/ \E token \in atoks \cup ForgedTokens : CheckSession(token)
    \/ \E pathname \in GatePaths, accessToken \in atoks \cup ForgedTokens \cup {NoToken},
          hasRefresh \in BOOLEAN, clientHeaders \in ClientHeaders :
            GateRequest(pathname, accessToken, hasRefresh, clientHeaders)

SpecAccess == Init /\ [][AccessNext]_vars

\* ===================================================== authenticatedFetch
\* `let response = await fetch(url, ...)` is sent.
FetchStart(c) ==
    /\ calls[c].pc = "idle"
    /\ calls' = [calls EXCEPT ![c].pc = "first", ![c].sends = 1]
    /\ UNCHANGED <<sessionVars, accessVars, gameVars, serviceVars, isAuthenticated>>

\* The first res arrives: a rejected fetch and a 401 body that does not
\* parse throw out of the call; a 401 with requiresRefresh calls
\* refreshToken(); anything else is returned.
FetchFirstResponse(c, res) ==
    /\ calls[c].pc = "first"
    /\ calls' = [calls EXCEPT ![c] =
         LET call == [calls[c] EXCEPT !.first = res]
         IN IF res = NetworkError
            THEN [call EXCEPT !.pc = "done", !.result = "fetch failed"]
            ELSE IF res.status = 401 /\ ~res.json
            THEN [call EXCEPT !.pc = "done", !.result = "Unexpected token"]
            ELSE IF needsRefresh(res)
            THEN [call EXCEPT !.pc = "refresh", !.refreshes = call.refreshes + 1]
            ELSE [call EXCEPT !.pc = "done", !.last = res,
                              !.result = "returned"]]
    /\ UNCHANGED <<sessionVars, accessVars, gameVars, serviceVars, isAuthenticated>>

\* refreshToken() settles: true re-sends the original request, false calls
\* logout().  A 'Security breach' answer is one of the answers that parse
\* and are not ok.
FetchRefreshed(c, res, breach) ==
    /\ calls[c].pc = "refresh"
    /\ breach => (res.status = 401 /\ res.json)
    /\ calls' = [calls EXCEPT ![c] =
         LET call == [calls[c] EXCEPT !.refreshed = res]
         IN IF clientRefreshToken(res)
            THEN [call EXCEPT !.pc = "retry", !.sends = call.sends + 1]
            ELSE [call EXCEPT !.pc = "logout", !.logouts = call.logouts + 1]]
    /\ isAuthenticated' = IF clientRefreshToken(res) THEN TRUE
                          ELSE IF breach THEN FALSE ELSE isAuthenticated
    /\ UNCHANGED <<sessionVars, accessVars, gameVars, serviceVars>>

\* The res of the re-sent request is returned as it is.
FetchRetryResponse(c, res) ==
    /\ calls[c].pc = "retry"
    /\ calls' = [calls EXCEPT ![c] =
         IF res = NetworkError
         THEN [calls[c] EXCEPT !.pc = "done", !.last = res,
                               !.result = "fetch failed"]
         ELSE [calls[c] EXCEPT !.pc = "done", !.last = res,
                               !.result = "returned"]]
    /\ UNCHANGED <<sessionVars, accessVars, gameVars, serviceVars, isAuthenticated>>

\* logout() settles (its fetch resolved or was caught), the auth state is
\* cleared and the call throws.
FetchLoggedOut(c, res) ==
    /\ calls[c].pc = "logout"
    /\ calls' = [calls EXCEPT ![c].pc = "done",
                              ![c].result = "Authentication failed"]
    /\ isAuthenticated' = FALSE
    /\ UNCHANGED <<sessionVars, accessVars, gameVars, serviceVars>>

FetchNext ==
    \/ \E c \in Calls : FetchStart(c)
    \/ \E c \in Calls, res \in Responses : FetchFirstResponse(c, res)
    \/ \E c \in Calls, res \in RefreshResponses, breach \in BOOLEAN :
          FetchRefreshed(c, res, breach)
    \/ \E c \in Calls, res \in Responses : FetchRetryResponse(c, res)
    \/ \E c \in Calls, res \in {NetworkError, Http(200, TRUE, FALSE)} :
          FetchLoggedOut(c, res)

SpecFetch == Init /\ [][FetchNext]_vars

\* ================================================================ PIN game
\* check-guess takes one step per awaited Redis command and one for its
\* response, so that requests for the same round interleave.  The other
\* handlers are taken as one step each.  The model covers the time before
\* the round's key can expire: every SETEX gives it at least ROUND_TTL.
StatsOf(rd) == [walletAddress |-> rd.walletAddress, secretCode |-> rd.secretCode]

\* The response holds the secret code although the stored round is not
\* completed.
Reveals(resp, stored) ==
    resp.secretCode # NoCode /\ stored # NoRound /\ ~stored.isCompleted

\* Start round POST: stores the new round and answers roundId, startTime,
\* maxAttempts and duration.
StartRound ==
    /\ ~started
    /\ started' = TRUE
    /\ pinRound' = [walletAddress |-> Owner, secretCode |-> SecretCode,
                    startTime |-> gameNow, attempts |-> <<>>, maxAttempts |-> 8,
                    isCompleted |-> FALSE, isWon |-> FALSE, score |-> 0]
    /\ UNCHANGED <<pinStats, gameNow, greqs, evaluated, lateResult, revealed,
                   evaluation>>
    /\ UNCHANGED <<sessionVars, accessVars, fetchVars, serviceVars>>

\* check-guess POST up to the reply of redis.get: the request is answered
\* at once when it is refused, and goes on to redis.setEx otherwise.
CheckGuess(p, wallet, guess) ==
    /\ greqs[p].pc = "idle"
    /\ evaluated + Cardinality({q \in GameSlots : greqs[q].pc # "idle"})
         < MaxGuesses
    /\ LET out == checkGuess(pinRound, wallet, guess, gameNow)
       IN greqs' = IF out.write
                   THEN [greqs EXCEPT ![p] = GameReq("guess", "setEx",
                                                     out.roundData, out.resp)]
                   ELSE greqs
    /\ UNCHANGED <<pinRound, pinStats, gameNow, started, evaluated, lateResult,
                   revealed, evaluation>>
    /\ UNCHANGED <<sessionVars, accessVars, fetchVars, serviceVars>>

\* check-guess POST: redis.setEx of the round data the handler holds.
CheckGuessSetEx(p) ==
    /\ greqs[p].pc = "setEx"
    /\ pinRound' = greqs[p].roundData
    /\ greqs' = [greqs EXCEPT ![p].pc = "respond",
                              ![p].resp.late = pinRound.isCompleted]
    /\ UNCHANGED <<pinStats, gameNow, started, evaluated, lateResult, revealed,
                   evaluation>>
    /\ UNCHANGED <<sessionVars, accessVars, fetchVars, serviceVars>>

\* check-guess POST: the update-player call of a won game and the response.
CheckGuessRespond(p) ==
    /\ greqs[p].pc = "respond"
    /\ greqs' = [greqs EXCEPT ![p] = IdleGame]
    /\ evaluated' = IF greqs[p].resp.result # NoResult THEN evaluated + 1
                    ELSE evaluated
    /\ lateResult' = (lateResult \/ (greqs[p].resp.result # NoResult
                                      /\ greqs[p].resp.late))
    /\ revealed' = (revealed \/ Reveals(greqs[p].resp, pinRound))
    /\ UNCHANGED <<pinRound, pinStats, gameNow, started, evaluation>>
    /\ UNCHANGED <<sessionVars, accessVars, fetchVars, serviceVars>>

RoundStatus(wallet) ==
    /\ LET out == roundStatus(pinRound, wallet, gameNow)
       IN /\ pinRound' = IF out.write THEN out.roundData ELSE pinRound
          /\ revealed' = (revealed \/ Reveals(out.resp, pinRound'))
    /\ UNCHANGED <<pinStats, gameNow, greqs, started, evaluated, lateResult,
                   evaluation>>
    /\ UNCHANGED <<sessionVars, accessVars, fetchVars, serviceVars>>

EndRound(wallet, reason) ==
    /\ LET out == IF reason = "other"
                  THEN Reject("end", 400, "Invalid end reason")
                  ELSE endRound(pinRound, wallet, reason)
       IN /\ pinRound' = IF out.write THEN out.roundData ELSE pinRound
          /\ pinStats' = IF out.write THEN StatsOf(out.roundData) ELSE pinStats
          /\ revealed' = (revealed \/ Reveals(out.resp, pinRound'))
    /\ UNCHANGED <<gameNow, greqs, started, evaluated, lateResult, evaluation>>
    /\ UNCHANGED <<sessionVars, accessVars, fetchVars, serviceVars>>

EndRoundStats(wallet) ==
    /\ revealed' = (revealed \/ Reveals(endRoundStats(pinStats, pinRound, wallet),
                                        pinRound))
    /\ UNCHANGED <<pinRound, pinStats, gameNow, greqs, started, evaluated,
                   lateResult, evaluation>>
    /\ UNCHANGED <<sessionVars, accessVars, fetchVars, serviceVars>>

\* Time passes.
GameTick(d) ==
    /\ started
    /\ gameNow + d < ROUND_TTL
    /\ gameNow' = gameNow + d
    /\ UNCHANGED <<pinRound, pinStats, greqs, started, evaluated, lateResult,
                   revealed, evaluation>>
    /\ UNCHANGED <<sessionVars, accessVars, fetchVars, serviceVars>>

GameNext ==
    \/ StartRound
    \/ \E p \in GameSlots, w \in Wallets, g \in Guesses : CheckGuess(p, w, g)
    \/ \E p \in GameSlots : CheckGuessSetEx(p)
    \/ \E p \in GameSlots : CheckGuessRespond(p)
    \/ \E w \in Wallets : RoundStatus(w)
    \/ \E w \in Wallets, r \in Reasons : EndRound(w, r)
    \/ \E w \in Wallets : EndRoundStats(w)
    \/ \E d \in {GAME_TIME, GAME_TIME + 1} : GameTick(d)

SpecGame == Init /\ [][GameNext]_vars

\* ============================================================ rate limiter
\* One request of the client reaches multiTierRateLimit.
LimitRequest ==
    /\ limiterLog.count < MaxLimiterCalls
    /\ LET out == multiTierRateLimit(clientData, nowMs)
           n == limiterLog.count + 1
           first == IF n = 1 THEN nowMs ELSE limiterLog.firstAt
       IN /\ clientData' = out.clientData
          /\ limiterLog' =
                [count |-> n, firstAt |-> first,
                 firstRefused |->
                     IF /\ limiterLog.firstRefused = 0
                        /\ ~out.result.allowed
                        /\ nowMs - first < 60 * 1000
                     THEN n ELSE limiterLog.firstRefused,
                 result |-> out.result]
    /\ UNCHANGED <<nowMs, dedupVars, sessionVars, accessVars, fetchVars,
                   gameVars>>

LimiterTick(d) ==
    /\ nowMs + d <= MaxLimiterMinutes * 60 * 1000
    /\ nowMs' = nowMs + d
    /\ UNCHANGED <<limiterVars, dedupVars, sessionVars, accessVars, fetchVars,
                   gameVars>>

LimiterNext ==
    \/ LimitRequest
    \/ \E d \in {30 * 1000, 60 * 1000} : LimiterTick(d)

SpecLimiter == Init /\ [][LimiterNext]_vars

\* ================================================== request deduplication
\* update-player POST of an authenticated request with valid amounts, up to
\* the call of writeContract: a duplicate is answered 409, any other request
\* is marked as processing.
UpdatePlayer(p, update) ==
    /\ upreqs[p].pc = "idle"
    /\ Cardinality(requestStore) < MaxUpdates
    /\ LET requestId == generateRequestId(update[1], update[2], update[3], nowMs)
       IN IF isDuplicateRequest(requestStore, requestId, nowMs)
          THEN UNCHANGED <<requestStore, upreqs>>
          ELSE /\ requestStore' = markRequestProcessing(requestStore, requestId,
                                                        nowMs)
               /\ upreqs' = [upreqs EXCEPT ![p] =
                                [pc |-> "writeContract", requestId |-> requestId,
                                 repeats |-> Repeats(requestStore, update, nowMs)]]
    /\ UNCHANGED <<nowMs, txs, dedupTicks, limiterVars, sessionVars, accessVars,
                   fetchVars, gameVars>>

\* writeContract returns the transaction hash: the request is marked as
\* completed and answered with success.
UpdateSubmitted(p) ==
    /\ upreqs[p].pc = "writeContract"
    /\ txs' = txs \cup {[requestId |-> upreqs[p].requestId, at |-> nowMs,
                          repeats |-> upreqs[p].repeats]}
    /\ requestStore' = markRequestComplete(requestStore, upreqs[p].requestId,
                                           nowMs)
    /\ upreqs' = [upreqs EXCEPT ![p] = IdleUpdate]
    /\ UNCHANGED <<nowMs, dedupTicks, limiterVars, sessionVars, accessVars,
                   fetchVars, gameVars>>

\* writeContract throws: the request is answered with an error and stays
\* marked as processing.
UpdateFailed(p) ==
    /\ upreqs[p].pc = "writeContract"
    /\ upreqs' = [upreqs EXCEPT ![p] = IdleUpdate]
    /\ UNCHANGED <<nowMs, requestStore, txs, dedupTicks, limiterVars,
                   sessionVars, accessVars, fetchVars, gameVars>>

DedupTick(d) ==
    /\ dedupTicks < MaxDedupTicks
    /\ dedupTicks' = dedupTicks + 1
    /\ nowMs' = nowMs + d
    /\ UNCHANGED <<requestStore, upreqs, txs, limiterVars, sessionVars,
                   accessVars, fetchVars, gameVars>>

DedupNext ==
    \/ \E p \in UpdateSlots, u \in Updates : UpdatePlayer(p, u)
    \/ \E p \in UpdateSlots : UpdateSubmitted(p)
    \/ \E p \in UpdateSlots : UpdateFailed(p)
    \/ \E d \in {1, RECENT_THRESHOLD - 1, RECENT_THRESHOLD} : DedupTick(d)

SpecDedup == Init /\ [][DedupNext]_vars

\* ============================================================ evaluateGuess
\* Every guess with every secret is an input.
EvalInit ==
    /\ SessionInit /\ AccessInit /\ FetchInit /\ RoundInit /\ ServiceInit
    /\ evaluation \in {[guess |-> g, secretCode |-> c, result |-> NoResult] :
                          g \in Codes, c \in SecretCodes}

Evaluate ==
    /\ evaluation.result = NoResult
    /\ evaluation' = [evaluation EXCEPT
                         !.result = evaluateGuess(evaluation.guess,
                                                  evaluation.secretCode)]
    /\ UNCHANGED <<sessionVars, accessVars, fetchVars, roundVars, serviceVars>>

SpecEval == EvalInit /\ [][Evaluate]_vars

\* ================================================================= claims
Present(userId, refreshToken) ==
    validateRefreshToken(store, userId, refreshToken, TRUE) # {}
LiveOf(st, userId) == {r \in st : r.userId = userId}
RefreshOk(r) == r.op = "refresh" /\ r.status = 200
IsBreach(r) ==
    /\ r.op = "refresh"
    /\ r.status = 401
    /\ r.error = "Security breach detected. All sessions terminated."

C3_LogoutExactIdempotent ==
    [][response'.op = "logout"
         => /\ response'.status = 200
            /\ store' \subseteq store
            /\ \A r \in store \ store' :
                  r.key = RefreshKey(response'.userId, response'.token)
            /\ ~response'.found => store' = store]_vars

\* Two sessions of one user, one logged out, the other still live.
C3_Witness ==
    /\ response.op = "logout" /\ response.found /\ response.fault = {}
    /\ ~Present(response.userId, response.token)
    /\ LiveOf(store, response.userId) # {}

Roots == {i.root : i \in issued}
Chain(root) == {i \in issued : i.root = root}
ChainLive(root) ==
    {r \in store : \E i \in Chain(root) : r.key = RefreshKey(i.userId, i.token)}
\* Ended: a record of the chain was removed by logout, by revokeAll (logout-all
\* or breach revocation) or by its TTL.
ChainEnded(root) ==
    \E i \in Chain(root), by \in {"logout", "revokeAll", "ttl"} :
        [key |-> RefreshKey(i.userId, i.token), by |-> by] \in removed
\* A refresh of the chain is between its DEL and its SETEX.
ChainRotating(root) ==
    \E p \in Procs : /\ procs[p].pc = "refresh_store"
                     /\ RootOf(procs[p].token) = root
\* Two refreshes of the chain were issued from the same token.
ChainForked(root) ==
    \E i, j \in Chain(root) : i # j /\ i.parent = j.parent

C6_ConcurrentRotationRace ==
    [][\A p \in Procs :
          (procs[p].op = "refresh" /\ procs'[p].pc # procs[p].pc
           /\ restarts' = restarts)
            => /\ procs[p].pc = "refresh_revoke"
                    => /\ procs'[p].pc = "refresh_store"
                       /\ store' \subseteq store
                       /\ \A r \in store \ store' :
                             r.key = RefreshKey(procs[p].userId, procs[p].token)
                       /\ IssuedOf(procs'[p].newToken) = {}
                       /\ \A q \in Procs \ {p} :
                             procs'[q].newToken # procs'[p].newToken
               /\ (procs[p].pc = "refresh_store" /\ "setex" \notin response'.fault)
                    => /\ RefreshOk(response')
                       /\ response'.newToken = procs[p].newToken
                       /\ store \subseteq store'
                       /\ {r.key : r \in store' \ store}
                             = {RefreshKey(procs[p].userId, procs[p].newToken)}]_vars

\* The second of two racing refreshes of one pair has answered 200: no Redis
\* command ever faulted, both new tokens are live, the presented one is gone.
C6_Witness ==
    /\ RefreshOk(response) /\ ~response.solo /\ faults = 0
    /\ ~Present(response.userId, response.token)
    /\ \E i, j \in issued :
          /\ i.token = response.newToken /\ j.token # i.token
          /\ i.parent = response.token /\ j.parent = response.token
          /\ Present(i.userId, i.token) /\ Present(j.userId, j.token)

\* ------------------------------------------------------------------- C7
IssuedKey(i) == RefreshKey(i.userId, i.token)
\* The record of i was removed by a DEL: rotated out or revoked.
DelRemoved(i) ==
    \E by \in {"rotate", "logout", "revokeAll"} :
        [key |-> IssuedKey(i), by |-> by] \in removed
\* The record of i stayed in Redis until its TTL ran out.
TtlRemoved(userId, token) ==
    [key |-> RefreshKey(userId, token), by |-> "ttl"] \in removed

UserExists(us, userId) == \E x \in us : x.id = userId

\* C8 (USER_NOT_FOUND leaves tokens untouched): a refresh answered 'User not
\* found' is a 401 that is not the breach response, sets and clears no
\* cookie, ran no step of revokeAllUserTokens (it was answered in the step
\* that looked the token up), found the presented record, belongs to a user
\* id with no user, and leaves the store as it was; and every refresh that
\* found its record and went on past the lookup belongs to an existing user
\* and is on the rotation path, not in revokeAllUserTokens.
C8_UserNotFoundLeavesTokens ==
    [][/\ (response'.op = "refresh" /\ response'.error = "User not found")
            => /\ response'.status = 401 /\ ~IsBreach(response')
               /\ response'.cookies = "none"
               /\ response'.found
               /\ ~UserExists(users, response'.userId)
               /\ store' = store /\ removed' = removed
               /\ RedisGet(store', RefreshKey(response'.userId, response'.token)) # {}
               /\ \E p \in Procs : procs[p].pc = "idle" /\ procs'[p].pc = "idle"
                                    /\ reqs' = reqs + 1
       /\ \A p \in Procs :
             (procs'[p].op = "refresh" /\ procs'[p].found
              /\ "get" \notin procs'[p].fault)
                => /\ procs'[p].pc \in {"refresh_revoke", "refresh_store"}
                   /\ UserExists(users', procs'[p].userId)]_vars

\* login, server restart (the users Map is empty again), refresh.
C8_Witness ==
    /\ response.op = "refresh" /\ response.error = "User not found"
    /\ response.found /\ response.fault = {}
    /\ Present(response.userId, response.token)
    /\ restarts >= 1

\* ------------------------------------------------------------------- C9
\* C9 as stated (fail closed on store fault): a login or refresh in which a
\* Redis command faulted ends in failure and sets no cookie; and every
\* refresh token delivered in a success response has had its record written.
C9_FailClosedOnStoreFault ==
    /\ (response.op \in {"login", "refresh"} /\ response.fault # {})
          => response.status >= 400 /\ response.cookies # "set"
    /\ \A t \in delivered : IssuedOf(t) # {}

\* ------------------------------------------------------------------ C10
\* C10 as stated (a store fault is surfaced distinctly): a refresh whose
\* lookup of the presented token faulted does not run revokeAllUserTokens,
\* does not answer with the breach response and does not clear the cookies.
C10_StoreFaultSurfacedDistinctly ==
    /\ \A p \in Procs :
          (procs[p].op = "refresh" /\ "get" \in procs[p].fault)
              => procs[p].pc \notin {"rev_keys", "rev_del"}
    /\ (response.op = "refresh" /\ "get" \in response.fault)
          => ~IsBreach(response) /\ response.cookies # "cleared"

\* ------------------------------------------------------------------ C11
\* C11 as stated (revocation outcomes are never silently swallowed): whenever
\* a request with which no other request was interleaved answers logout
\* with success, the presented record is absent; and whenever it answers
\* logout-all with success or refresh with the breach response, no record
\* of the user is left - also when a Redis command of the request faulted.
C11_RevocationNeverSwallowed ==
    response.solo =>
        /\ (response.op = "logout" /\ response.status = 200)
              => ~Present(response.userId, response.token)
        /\ (((response.op = "logoutAll" /\ response.status = 200)
              \/ IsBreach(response))
             /\ response.userId \in GeneratedUserIds)
              => LiveOf(store, response.userId) = {}

\* ------------------------------------------------------------------ C12
\* C12 (verifyAccess is a pure function of credential and time): every
\* access token the server has signed verifies as valid exactly while fewer
\* than 15 minutes (900 s) have passed since it was signed; and over every
\* step that leaves the clock alone - logins, logout-all and breach
\* revocations changing the store - the verdict on every signed or forged
\* token stays what it was.
C12_VerifyAccessIsPure ==
    /\ [](\A a \in atoks :
            (verifyAccessToken(a, now) = a.payload) <=> (now < a.iat + 15 * 60))
    /\ [][now' = now =>
            \A a \in atoks \cup ForgedTokens :
                (verifyAccessToken(a, now))' = verifyAccessToken(a, now)]_vars

\* A token signed at login is checked after its user's sessions were all
\* revoked and time has passed: still valid.
C12_Witness ==
    /\ verified.token \in atoks
    /\ verified.full = verified.token.payload
    /\ verified.at > verified.token.iat
    /\ {r \in store : r.userId = verified.token.payload.userId} = {}

\* ------------------------------------------------------------------ C13
\* C13 as stated (P5): a credential whose exp lies in the past is refused by
\* verifyAccessToken and by verifyAccessTokenEdge, whatever its signature.
C13_ExpiredCredentialRefused ==
    (verified.token.form = "jwt" /\ verified.token.exp # NoExp
     /\ verified.token.exp < verified.at)
        => /\ verified.full = NullIdentity
           /\ verified.edge = NullIdentity

\* ------------------------------------------------------------------ C14
\* C14 as stated (the gate is in front of every protected operation): a
\* request for a path under PROTECTED_ROUTES that carries no access_token
\* cookie is answered 401 'Authentication required' (API) or redirected to
\* /login (page) and does not reach the handler.
C14_GateBeforeProtected ==
    (gate.pathname # Empty /\ isProtectedRoute(gate.pathname)
     /\ gate.accessToken = NoToken)
        => gate.verdict = Rejected(gate.pathname, "Authentication required")

\* ------------------------------------------------------------------ C15
\* C15 as stated (only a signature-verified credential may gate access): an
\* identity reaches the handler - injected by the middleware or returned by
\* requireAuth - only when the access_token cookie verifies in full, and it
\* is that token's identity.
C15_OnlyVerifiedCredentialGates ==
    (gate.verdict.injected \/ gate.identity # NullIdentity)
        => /\ verifyAccessToken(gate.accessToken, gate.at) # NullIdentity
           /\ gate.identity \in {NullIdentity, gate.accessToken.payload}
           /\ gate.verdict.injected => gate.verdict.headers = gate.accessToken.payload

\* ------------------------------------------------------------------ C16
\* Two raw strings are the same credential when they differ only in letter
\* case and surrounding white space.
SameCredential(a, b) == a.base = b.base

\* C16 (identity is unique per case-normalized wallet and immutable): no
\* two identities share a wallet, a username or an id, and what is stored
\* is lower-cased and trimmed; for every login body, registerOrLoginUser
\* returns the existing identity unchanged when the wallet is registered
\* under that username, fails without touching the directory when it is
\* registered under another username, and otherwise fails or adds exactly
\* one identity; no step other than a restart removes or alters an
\* identity; and a login answered 401 leaves directory, store and issued
\* tokens as they were.
C16_IdentityUniqueAndImmutable ==
    /\ [](/\ \A x, y \in users :
               (SameCredential(x.walletAddress, y.walletAddress)
                \/ SameCredential(x.username, y.username) \/ x.id = y.id)
                  => x = y
          /\ \A x \in users :
               /\ ~x.walletAddress.upper /\ ~x.walletAddress.padded
               /\ ~x.username.upper /\ ~x.username.padded
          /\ \A in \in LoginInputs :
               LET reg == registerOrLoginUser(users, in[1], in[2], UserSym(nextUid))
                   known == {x \in users : SameCredential(x.walletAddress, in[2])}
               IN IF known # {}
                  THEN /\ reg.users = users
                       /\ \A x \in known :
                             IF SameCredential(x.username, in[1])
                             THEN ~reg.throws /\ reg.user = x
                             ELSE reg.throws
                  ELSE \/ reg.throws /\ reg.users = users
                       \/ /\ ~reg.throws /\ reg.user.id = UserSym(nextUid)
                          /\ reg.users = users \cup {reg.user}
                          /\ SameCredential(reg.user.walletAddress, in[2])
                          /\ SameCredential(reg.user.username, in[1]))
    /\ [][/\ restarts' = restarts => users \subseteq users'
          /\ (response'.op = "login" /\ response'.status = 401)
                => /\ users' = users /\ store' = store
                   /\ issued' = issued /\ delivered' = delivered
                   /\ response'.cookies = "none"]_vars

\* One wallet has logged in twice, in different spellings, under one user
\* id; a third login names that wallet with another username and is refused.
C16_Witness ==
    /\ response.op = "login" /\ response.status = 401
    /\ Cardinality(users) = 1
    /\ \E i, j \in issued :
          i # j /\ i.parent = Empty /\ j.parent = Empty /\ i.userId = j.userId

\* ------------------------------------------------------------------ C17
\* C17 (client retry protocol): in every call of authenticatedFetch the
\* original request is sent at most twice and refreshToken and logout are
\* called at most once; refreshToken is called exactly when the first
\* response is a 401 marked requiresRefresh; when it succeeds the request
\* is sent exactly once more and whatever comes back is the outcome of the
\* call, a further 401 included; when it fails logout is called and the
\* call throws 'Authentication failed' without sending the request again.
C17_ClientRetryProtocol ==
    \A c \in Calls :
        LET call == calls[c]
            marked == call.first.status = 401 /\ call.first.json
                      /\ call.first.requiresRefresh
            refreshOk == call.refreshed.status = 200 /\ call.refreshed.json
        IN /\ call.sends <= 2 /\ call.refreshes <= 1 /\ call.logouts <= 1
           /\ call.first # NoHttp => (call.refreshes = 1 <=> marked)
           /\ call.pc = "done" =>
                IF ~marked
                THEN call.sends = 1 /\ call.logouts = 0
                ELSE IF refreshOk
                THEN /\ call.sends = 2 /\ call.logouts = 0
                     /\ call.last # NoHttp
                     /\ call.result = IF call.last = NetworkError
                                       THEN "fetch failed" ELSE "returned"
                ELSE /\ call.sends = 1 /\ call.logouts = 1
                     /\ call.result = "Authentication failed"

\* One call was refreshed, re-sent and returned a second 401 marked
\* requiresRefresh; another failed to refresh, logged out and threw.
C17_Witness ==
    \E c, d \in Calls :
        /\ calls[c].pc = "done" /\ calls[c].sends = 2
        /\ calls[c].result = "returned" /\ needsRefresh(calls[c].last)
        /\ calls[d].pc = "done" /\ calls[d].result = "Authentication failed"
        /\ calls[d].logouts = 1

\* ------------------------------------------------------------------ C20
\* Number of positions of a code that hold digit d.
CountOf(d, code) == Cardinality({i \in Positions : code[i] = d})
RECURSIVE SumOfMin(_, _, _)
SumOfMin(d, guess, secretCode) ==
    IF d < 0 THEN 0
    ELSE (IF CountOf(d, guess) < CountOf(d, secretCode)
          THEN CountOf(d, guess) ELSE CountOf(d, secretCode))
         + SumOfMin(d - 1, guess, secretCode)

\* C20 (evaluateGuess agrees with the reference scoring): for all
\* four-digit guess and secret, correct is the number of positions with
\* equal digits and close is the sum over the digits d of min(count of d in
\* guess, count of d in secret) minus correct; correct + close <= 4, and
\* correct = 4 exactly when guess equals secret.
C20_EvaluateGuessReference ==
    evaluation.result # NoResult =>
        LET g == evaluation.guess
            c == evaluation.secretCode
            res == evaluation.result
        IN /\ res.correct = Cardinality({i \in Positions : g[i] = c[i]})
           /\ res.close = SumOfMin(NumDigits - 1, g, c) - res.correct
           /\ res.correct + res.close <= 4
           /\ res.correct = 4 <=> g = c

\* A guess that repeats a digit more often than the secret holds it, with
\* one exact match and one misplaced digit.
C20_Witness ==
    /\ evaluation.result = GuessResult(1, 1)
    /\ \E d \in 0..(NumDigits - 1) :
          /\ CountOf(d, evaluation.guess) >= 2
          /\ CountOf(d, evaluation.secretCode) = 1
          /\ \E i \in Positions : /\ evaluation.guess[i] = d
                                   /\ evaluation.secretCode[i] # d

\* ------------------------------------------------------------------ C18
\* C18 (attempt limit): the number of guesses check-guess returns a result
\* for never exceeds the round's maxAttempts = 8, and no guess gets a result
\* once the round is completed, under any interleaving of check-guess
\* requests for the same round.
C18_AttemptLimit ==
    started => /\ evaluated <= pinRound.maxAttempts
               /\ ~lateResult

\* ------------------------------------------------------------------ C19
\* C19 (secret revealed only when completed): no handler includes the
\* round's secretCode in a response while the stored round has
\* isCompleted = false.
C19_SecretOnlyWhenCompleted == ~revealed

\* ------------------------------------------------------------------ C21
\* C21 (score invariant): in every stored round state isWon implies
\* isCompleted and 1000 <= score <= 2000, and not isWon implies score = 0;
\* every scoreAmount check-guess sends to update-player lies in
\* update-player's accepted range 0 .. MAX_SCORE_PER_REQUEST.
C21_ScoreInvariant ==
    /\ pinRound # NoRound =>
          /\ pinRound.isWon =>
                /\ pinRound.isCompleted
                /\ 1000 <= pinRound.score /\ pinRound.score <= 2000
          /\ ~pinRound.isWon => pinRound.score = 0
    /\ \A p \in GameSlots :
          greqs[p].resp.scoreAmount # 0 - 1 =>
              /\ 0 <= greqs[p].resp.scoreAmount
              /\ greqs[p].resp.scoreAmount <= MAX_SCORE_PER_REQUEST

\* A game won with the first guess at once is stored with the highest score,
\* which is about to be sent to update-player.
C21_Witness ==
    /\ pinRound # NoRound /\ pinRound.isWon /\ pinRound.score = 2000
    /\ \E p \in GameSlots : /\ greqs[p].pc = "respond"
                             /\ greqs[p].resp.scoreAmount = 2000

\* ------------------------------------------------------------------ C22
\* C22 (per-minute tier): for a client with no prior history that is not
\* blocked, multiTierRateLimit allows each of the first 60 requests made
\* within one minute and refuses only from the 61st on.
C22_FirstSixtyAllowed ==
    limiterLog.firstRefused = 0 \/ limiterLog.firstRefused > 60

\* ------------------------------------------------------------------ C23
\* C23 (request deduplication): while a request for (playerAddress,
\* scoreAmount, transactionAmount) is in status processing, or was completed
\* less than five minutes ago, a second update-player request with the same
\* three values is rejected as a duplicate and submits no second on-chain
\* transaction.
C23_DuplicateRejected ==
    /\ \A p \in UpdateSlots : ~upreqs[p].repeats
    /\ \A x \in txs : ~x.repeats

\* ------------------------------------------------------------------ C24
\* C24 (auth-status check reflects a live session): for cookies user_id = u
\* and refresh_token = t with record (u,t) live in the store and u a known
\* user, GET /api/auth/refresh reports valid = true with u's identity, and it
\* never changes the store.
C24_StatusReflectsLiveSession ==
    /\ response.op = "status"
    /\ response.found
    /\ response.fault = {}
    /\ findUserById(users, response.userId) # NullUser
    => response.error = ""

\* ------------------------------------------------------------------ C25
\* C25 (a failed refresh is retryable): a refresh that ends in a non-breach
\* failure (401 'User not found' or 500 'Token refresh failed') leaves the
\* presented record (u,t) live, so that a retry with the same cookies is not
\* taken for a breach.
C25_FailedRefreshRetryable ==
    /\ response.op = "refresh"
    /\ response.error \in {"User not found", "Token refresh failed"}
    /\ response.found /\ response.solo
    => Present(response.userId, response.token)

\* ------------------------------------------------------------------ C26
\* C26 (revokeAll is confined to its owner): the DEL of revokeAll(userId)
\* removes only records whose owner is userId, whatever string the user_id
\* cookie carries; the records of every other user are unchanged.
C26_RevokeAllConfinedToOwner ==
    [][\A p \in Procs :
          (procs[p].pc = "rev_del" /\ procs'[p].pc # "rev_del"
           /\ restarts' = restarts)
            => \A r \in store \ store' : r.userId = procs[p].userId]_vars

\* ------------------------------------------------------------------ C27
\* C27 (revocation is not outrun by an in-flight refresh): once a
\* revokeAll(u) has completed, no record for u is stored by a refresh whose
\* validation ran before that revokeAll started.  Here the revokeAll has just
\* answered without any other request taking a step during it, and no
\* command faulted.
C27_RevocationNotOutrun ==
    [][\A q \in Procs :
          (/\ response.op = "logoutAll" \/ IsBreach(response)
           /\ response.solo /\ response.fault = {}
           /\ procs[q].op = "refresh" /\ procs[q].pc = "refresh_store"
           /\ procs[q].userId = response.userId
           /\ restarts' = restarts)
            => ~\E r \in store' \ store : r.userId = response.userId]_vars

====
